---------------------------- MODULE Spec2Model ----------------------------
(***************************************************************************)
(* Model of the transaction / booking lifecycle of the real-estate         *)
(* management system (Django application `properties`).                    *)
(*                                                                         *)
(* The persisted rows are the shared state.  Every request handler is a    *)
(* sequence of separate ORM statements; none of the views opens a database *)
(* transaction (there is no transaction.atomic and no select_for_update in *)
(* the source), so each statement commits on its own and the statements of *)
(* concurrent requests interleave.  closeDeal (transaction_create_view)    *)
(* and submitReview (review_create_view) are therefore modelled one        *)
(* statement per step; a request slot is one in-flight HTTP request.       *)
(*                                                                         *)
(* Money is counted in cents, a commission rate in hundredths of a percent *)
(* (3.00 % = 300), a date as a small positive integer.                     *)
(***************************************************************************)
EXTENDS Integers, Sequences, FiniteSets, TLC

(***************************************************************************)
(* Bounds of the model.                                                    *)
(***************************************************************************)
MaxTxns == 2
MaxReviews == 2
MaxAppts == 2
MaxAgents == 3
MaxClients == 3

Reqs == {"r1", "r2"}

(***************************************************************************)
(* Accounts (table Users).  user_type is fixed at registration.            *)
(***************************************************************************)
Users == {"ag1", "ag2", "ag3", "cl1", "cl2", "cl3", "adm"}

UserType(u) ==
    CASE u \in {"ag1", "ag2", "ag3"} -> "agent"
      [] u \in {"cl1", "cl2", "cl3"} -> "client"
      [] OTHER -> "admin"

PropertyStatuses == {"available", "pending", "sold", "rented", "off_market"}
AppointmentStatuses == {"scheduled", "completed", "cancelled", "no_show"}
TransactionTypes == {"sale", "rental"}

NoDate == 0
DefaultCommissionRate == 300
NoId == 0

VARIABLES
    agents,        \* Agents rows, keyed by agent_id
    clients,       \* Clients rows, keyed by client_id
    properties,    \* Properties rows, keyed by property_id
    transactions,  \* Transactions rows; transaction_id is the index
    reviews,       \* Reviews rows; review_id is the index
    appointments,  \* Appointments rows; appointment_id is the index
    rounding,      \* how the deployment rounds a Decimal to the column's places
    locations,     \* Locations rows, keyed by location_id
    images,        \* PropertyImages rows; image_id is the index
    prof,          \* per request slot: the locals of the profile views
    lst,           \* per request slot: the locals of the property create/update views
    deal,          \* per request slot: the locals of transaction_create_view
    rev,           \* per request slot: the locals of review_create_view
    resp           \* the response returned last: the operation, its outcome
                   \* and the rows the request had written

db == <<agents, clients, properties, transactions, reviews, appointments, rounding,
        locations, images>>
vars == <<agents, clients, properties, transactions, reviews, appointments,
          rounding, locations, images, deal, rev, prof, lst, resp>>

(***************************************************************************)
(* ORM look-ups.                                                           *)
(***************************************************************************)
\* Agent.objects.get(user=u): the agent_id of u's profile, NoId when absent.
AgentOfUser(u) ==
    IF \E a \in DOMAIN agents : agents[a].user = u
    THEN CHOOSE a \in DOMAIN agents : agents[a].user = u
    ELSE NoId

\* Client.objects.get(user=u): the client_id of u's profile, NoId when absent.
ClientOfUser(u) ==
    IF \E c \in DOMAIN clients : clients[c].user = u
    THEN CHOOSE c \in DOMAIN clients : clients[c].user = u
    ELSE NoId

\* A look-up that finds a row for any id.
ClientExistsAlways(cid) == TRUE

\* Client.objects.get(client_id=cid) finds a row.
ClientExists(cid) == cid \in DOMAIN clients

NoProperty ==
    [agent |-> NoId, status |-> "none", sold_date |-> NoDate, location |-> NoId,
     price |-> 0]
NoAgent == [agent_id |-> NoId, user |-> "none", commission_rate |-> 0, total_sales |-> 0]
NoForm ==
    [transaction_type |-> "none", transaction_date |-> NoDate, final_price |-> 0,
     payment_status |-> "none", lease_start_date |-> NoDate,
     lease_end_date |-> NoDate]

(***************************************************************************)
(* Decimal arithmetic of the commission.                                   *)
(***************************************************************************)
\* final_price * (commission_rate / 100) is exact in Decimal: with the price in
\* cents and the rate in hundredths of a percent it is CommissionNumer / 10000
\* cents.
CommissionNumer(final_price, commission_rate) == final_price * commission_rate

RoundHalfUp(n, d) == (2 * n + d) \div (2 * d)

RoundHalfEven(n, d) ==
    LET q == n \div d
        r == n % d
    IN  IF 2 * r > d THEN q + 1
        ELSE IF 2 * r < d THEN q
        ELSE IF q % 2 = 0 THEN q ELSE q + 1

\* The view stores the unrounded product; the two-place column
\* (decimal_places=2) rounds it when the row is written.  The view names no
\* rounding mode, so the mode is the deployment's: Django's format_number
\* quantizes under the default Decimal context (ROUND_HALF_EVEN), a backend
\* that hands the value to MySQL unrounded gets MySQL's half-up.
StoredCommission(final_price, commission_rate) ==
    IF rounding = "half_even"
    THEN RoundHalfEven(CommissionNumer(final_price, commission_rate), 10000)
    ELSE RoundHalfUp(CommissionNumer(final_price, commission_rate), 10000)


(***************************************************************************)
(* closeDeal: transaction_create_view, POST.                               *)
(***************************************************************************)
PropertyPks == {1, 2}
DateInputs == {1, 2}
PriceInputs == {-100, 150}
ClientIdInputs == {0, 1, 3}

PaymentStatuses == {"pending", "completed", "failed", "refunded"}

\* The form of transaction_create_view is posted with the payment status at
\* its initial value and the two optional lease dates left empty.
TransactionForms ==
    [transaction_type : TransactionTypes, transaction_date : DateInputs,
     final_price : PriceInputs, payment_status : {"pending"},
     lease_start_date : {NoDate}, lease_end_date : {NoDate}]

\* TransactionForm.is_valid(): final_price carries MinValueValidator(0); the
\* type is one of the model's choices.
FormValid(form) ==
    /\ form.transaction_type \in TransactionTypes
    /\ form.final_price >= 0
    /\ form.payment_status \in PaymentStatuses

IdleDeal ==
    [pc |-> "idle", user |-> "none", ppk |-> NoId, form |-> NoForm,
     client |-> NoId, property_obj |-> NoProperty, agent |-> NoAgent,
     wrote |-> {}]

\* The response of a request: its outcome and which rows it had written.
Response(op, result, wrote) == [op |-> op, result |-> result, wrote |-> wrote]

\* The kind of failure a response reports.
ResultKind(result) ==
    CASE result \in {"not_agent", "not_owner", "not_client", "not_own"} -> "authorization"
      [] result \in {"no_property", "no_agent_profile", "no_client",
                     "no_client_profile", "no_appointment"} -> "not_found"
      [] result = "duplicate" -> "state_conflict"
      [] result = "invalid" -> "validation"
      [] result = "error" -> "storage"
      [] OTHER -> result

\* An ownership check that lets every agent with a profile through.
IsBoundAgentAlways(ppk, aid) == TRUE

\* property_obj.agent != agent (line 688), aid being the caller's agent_id.
IsBoundAgent(ppk, aid) == properties[ppk].agent = aid

\* A status update that ignores the transaction type.
NewPropertyStatusSold(transaction_type) == "sold"

\* Lines 711-714.
NewPropertyStatus(transaction_type) ==
    IF transaction_type = "sale" THEN "sold" ELSE "rented"

\* Lines 682-689, the caller checked against the property: the response that
\* turns the caller away, "pass" for the agent bound to the property.
DealAccess(u, ppk) ==
    IF UserType(u) # "agent" THEN "not_agent"
    ELSE IF ppk \notin DOMAIN properties THEN "no_property"
    ELSE IF AgentOfUser(u) = NoId THEN "no_agent_profile"
    ELSE IF ~IsBoundAgent(ppk, AgentOfUser(u)) THEN "not_owner"
    ELSE "pass"

\* A request slot is free, and the model's bound on the Transactions table
\* leaves room for the row the request may insert.
DealMayStart(r) ==
    /\ deal[r].pc = "idle"
    /\ Len(transactions) + Cardinality({q \in Reqs : deal[q].pc = "insert"}) < MaxTxns

\* Lines 682-689 turning the caller away: HttpResponseForbidden or Http404.
DealDenied(r, u, ppk) ==
    /\ DealMayStart(r)
    /\ DealAccess(u, ppk) # "pass"
    /\ resp' = Response("closeDeal", DealAccess(u, ppk), {})
    /\ UNCHANGED <<db, deal, rev>>
    /\ UNCHANGED <<prof, lst>>

\* Lines 682-697 for a caller who passes: the two loads, form validation and
\* the client look-up; none of them writes.
DealLoad(r, u, ppk, form, cid) ==
    /\ DealMayStart(r)
    /\ DealAccess(u, ppk) = "pass"
    /\ LET aid == AgentOfUser(u)
       IN  IF ~(FormValid(form) /\ cid # NoId)
           THEN /\ resp' = Response("closeDeal", "invalid", {})
                /\ UNCHANGED deal
           ELSE IF ~ClientExists(cid)
           THEN /\ resp' = Response("closeDeal", "no_client", {})
                /\ UNCHANGED deal
           ELSE /\ deal' = [deal EXCEPT ![r] =
                      [IdleDeal EXCEPT
                          !.pc = "insert", !.user = u, !.ppk = ppk,
                          !.form = form, !.client = cid,
                          !.property_obj = properties[ppk],
                          !.agent = [agent_id |-> aid,
                                     user |-> agents[aid].user,
                                     commission_rate |-> agents[aid].commission_rate,
                                     total_sales |-> agents[aid].total_sales]]]
                /\ UNCHANGED resp
    /\ UNCHANGED <<db, rev>>
    /\ UNCHANGED <<prof, lst>>

\* Lines 699-708: transaction.save() inserts the row.
DealInsert(r) ==
    /\ deal[r].pc = "insert"
    /\ transactions' = Append(transactions,
          [property |-> deal[r].ppk, client |-> deal[r].client,
           agent |-> deal[r].agent.agent_id,
           transaction_type |-> deal[r].form.transaction_type,
           transaction_date |-> deal[r].form.transaction_date,
           final_price |-> deal[r].form.final_price,
           payment_status |-> deal[r].form.payment_status,
           lease_start_date |-> deal[r].form.lease_start_date,
           lease_end_date |-> deal[r].form.lease_end_date,
           commission_amount |-> StoredCommission(deal[r].form.final_price,
                                                  deal[r].agent.commission_rate)])
    /\ deal' = [deal EXCEPT ![r].pc = "saveProp", ![r].wrote = @ \cup {"txn"}]
    /\ UNCHANGED <<agents, clients, properties, reviews, appointments, rounding, rev, resp>>
    /\ UNCHANGED <<locations, images, prof, lst>>

\* Lines 710-716: property_obj.save() writes every column of the object loaded
\* at line 685, with status and sold_date changed.
DealSaveProperty(r) ==
    /\ deal[r].pc = "saveProp"
    /\ properties' = [properties EXCEPT ![deal[r].ppk] =
          [deal[r].property_obj EXCEPT
              !.status = NewPropertyStatus(deal[r].form.transaction_type),
              !.sold_date = deal[r].form.transaction_date]]
    /\ deal' = [deal EXCEPT ![r].pc = "saveAgent", ![r].wrote = @ \cup {"prop"}]
    /\ UNCHANGED <<agents, clients, transactions, reviews, appointments, rounding, rev, resp>>
    /\ UNCHANGED <<locations, images, prof, lst>>

\* Lines 718-723: agent.total_sales += 1 on the object loaded at line 686, then
\* agent.save() writes every column of that object.
DealSaveAgent(r) ==
    /\ deal[r].pc = "saveAgent"
    /\ agents' = [agents EXCEPT ![deal[r].agent.agent_id] =
          [user |-> deal[r].agent.user,
           commission_rate |-> deal[r].agent.commission_rate,
           total_sales |-> deal[r].agent.total_sales + 1]]
    /\ deal' = [deal EXCEPT ![r] = IdleDeal]
    /\ resp' = Response("closeDeal", "ok", deal[r].wrote \cup {"agent"})
    /\ UNCHANGED <<clients, properties, transactions, reviews, appointments, rounding, rev>>
    /\ UNCHANGED <<locations, images, prof, lst>>

\* Lines 726-727: any of the three save() calls raises (a storage error); the
\* handler catches it and reports it.  What was saved before stays saved.
DealFail(r) ==
    /\ deal[r].pc \in {"insert", "saveProp", "saveAgent"}
    /\ deal' = [deal EXCEPT ![r] = IdleDeal]
    /\ resp' = Response("closeDeal", "error", deal[r].wrote)
    /\ UNCHANGED <<db, rev>>
    /\ UNCHANGED <<prof, lst>>

(***************************************************************************)
(* submitReview: review_create_view, POST.                                 *)
(***************************************************************************)
RatingInputs == {0, 2, 5, 6}

\* ReviewForm.is_valid(): rating carries MinValueValidator(1) and
\* MaxValueValidator(5).
RatingValid(rating) == rating >= 1 /\ rating <= 5

IdleRev ==
    [pc |-> "idle", user |-> "none", ppk |-> NoId, client |-> NoId,
     property_obj |-> NoProperty, rating |-> 0]

\* A pre-check that never finds a review.
ReviewExistsNever(cid, ppk) == FALSE

\* Review.objects.filter(client=client, property=property_obj).exists()
ReviewExists(cid, ppk) ==
    \E i \in DOMAIN reviews : reviews[i].client = cid /\ reviews[i].property = ppk

RevMayStart(r) ==
    /\ rev[r].pc = "idle"
    /\ Len(reviews) + Cardinality({q \in Reqs : rev[q].pc = "insert"}) < MaxReviews

\* Lines 801-810, the caller and the pair checked: the response that ends the
\* request there, "pass" when the review may be written.
RevAccess(u, ppk) ==
    IF UserType(u) # "client" THEN "not_client"
    ELSE IF ppk \notin DOMAIN properties THEN "no_property"
    ELSE IF ClientOfUser(u) = NoId THEN "no_client_profile"
    ELSE IF ReviewExists(ClientOfUser(u), ppk) THEN "duplicate"
    ELSE "pass"

\* Lines 801-810 ending the request: HttpResponseForbidden, Http404 or the
\* "already reviewed" redirect.
RevDenied(r, u, ppk) ==
    /\ RevMayStart(r)
    /\ RevAccess(u, ppk) # "pass"
    /\ resp' = Response("submitReview", RevAccess(u, ppk), {})
    /\ UNCHANGED <<db, deal, rev>>
    /\ UNCHANGED <<prof, lst>>

\* Lines 801-814 for a caller who passes: the loads, the exists() pre-check
\* and form validation; none of them writes.
RevCheck(r, u, ppk, rating) ==
    /\ RevMayStart(r)
    /\ RevAccess(u, ppk) = "pass"
    /\ IF ~RatingValid(rating)
       THEN /\ resp' = Response("submitReview", "invalid", {})
            /\ UNCHANGED rev
       ELSE /\ rev' = [rev EXCEPT ![r] =
                  [pc |-> "insert", user |-> u, ppk |-> ppk,
                   client |-> ClientOfUser(u),
                   property_obj |-> properties[ppk], rating |-> rating]]
            /\ UNCHANGED resp
    /\ UNCHANGED <<db, deal>>
    /\ UNCHANGED <<prof, lst>>

\* Lines 816-823: review.save() inserts the row; the table declares no
\* uniqueness over (client, property), so the insert is never refused.
RevInsert(r) ==
    /\ rev[r].pc = "insert"
    /\ reviews' = Append(reviews,
          [client |-> rev[r].client, property |-> rev[r].ppk,
           agent |-> rev[r].property_obj.agent, rating |-> rev[r].rating])
    /\ rev' = [rev EXCEPT ![r] = IdleRev]
    /\ resp' = Response("submitReview", "ok", {"review"})
    /\ UNCHANGED <<agents, clients, properties, transactions, appointments,
                   rounding, deal>>
    /\ UNCHANGED <<locations, images, prof, lst>>

\* Lines 824-825: review.save() raises (a storage error); nothing is written.
RevFail(r) ==
    /\ rev[r].pc = "insert"
    /\ rev' = [rev EXCEPT ![r] = IdleRev]
    /\ resp' = Response("submitReview", "error", {})
    /\ UNCHANGED <<db, deal>>
    /\ UNCHANGED <<prof, lst>>

(***************************************************************************)
(* scheduleAppointment and resolveAppointment.  Each runs a single write;  *)
(* the handler is one step.                                                *)
(***************************************************************************)
DurationInputs == {0, 60}
StatusInputs == AppointmentStatuses \cup {"bogus"}

\* A profile look-up that treats every client account as having profile 1.
ScheduleClientAssumed(u) == IF ClientOfUser(u) = NoId THEN 1 ELSE ClientOfUser(u)

\* Lines 553-557: Client.objects.get(user=request.user); NoId stands for
\* Client.DoesNotExist.
ScheduleClient(u) == ClientOfUser(u)

\* Lines 548-557 of appointment_create_view: the response that ends the
\* request before the form is looked at, "pass" otherwise.
ScheduleAccess(u, ppk) ==
    IF UserType(u) # "client" THEN "not_client"
    ELSE IF ppk \notin DOMAIN properties THEN "no_property"
    ELSE IF ScheduleClient(u) = NoId THEN "no_client_profile"
    ELSE "pass"

\* appointment_create_view, POST: AppointmentForm validates duration_minutes
\* (MinValueValidator(1)); the agent is copied from the property.
ScheduleAppointment(u, ppk, duration) ==
    /\ Len(appointments) < MaxAppts
    /\ IF ScheduleAccess(u, ppk) # "pass"
       THEN /\ resp' = Response("scheduleAppointment", ScheduleAccess(u, ppk), {})
            /\ UNCHANGED appointments
       ELSE IF duration < 1
       THEN /\ resp' = Response("scheduleAppointment", "invalid", {})
            /\ UNCHANGED appointments
       ELSE /\ appointments' = Append(appointments,
                  [property |-> ppk, client |-> ScheduleClient(u),
                   agent |-> properties[ppk].agent,
                   duration_minutes |-> duration, status |-> "scheduled"])
            /\ resp' = Response("scheduleAppointment", "ok", {"appointment"})
    /\ UNCHANGED <<agents, clients, properties, transactions, reviews,
                   rounding, deal, rev>>
    /\ UNCHANGED <<locations, images, prof, lst>>

\* Lines 619-627 of appointment_update_view: the response that turns the
\* caller away, "pass" otherwise.  Client.objects.get / Agent.objects.get
\* raise for an account without a profile (an unhandled exception); an
\* admin account is not checked.
ResolveAccess(u, pk) ==
    IF pk \notin DOMAIN appointments THEN "no_appointment"
    ELSE IF UserType(u) = "client"
    THEN IF ClientOfUser(u) = NoId THEN "server_error"
         ELSE IF appointments[pk].client # ClientOfUser(u) THEN "not_own"
         ELSE "pass"
    ELSE IF UserType(u) = "agent"
    THEN IF AgentOfUser(u) = NoId THEN "server_error"
         ELSE IF appointments[pk].agent # AgentOfUser(u) THEN "not_own"
         ELSE "pass"
    ELSE "pass"

\* AppointmentUpdateForm.is_valid() for the status field: the new status is
\* one of the model's choices; the appointment's current status is not
\* looked at.
TransitionAllowed(old_status, new_status) ==
    new_status \in AppointmentStatuses

\* A save that derives the appointment's agent from the property again.
SavedAppointmentRederived(row, new_status) ==
    [row EXCEPT !.status = new_status,
                !.agent = IF row.property \in DOMAIN properties
                          THEN properties[row.property].agent ELSE row.agent]

\* form.save() of AppointmentUpdateForm (fields status, notes) on the loaded
\* instance: the row with the new status, its other columns as loaded.
SavedAppointment(row, new_status) == [row EXCEPT !.status = new_status]

\* appointment_update_view, POST: form.save() writes the chosen status.
ResolveAppointment(u, pk, new_status) ==
    /\ IF ResolveAccess(u, pk) # "pass"
       THEN /\ resp' = Response("resolveAppointment", ResolveAccess(u, pk), {})
            /\ UNCHANGED appointments
       ELSE IF ~TransitionAllowed(appointments[pk].status, new_status)
       THEN /\ resp' = Response("resolveAppointment", "invalid", {})
            /\ UNCHANGED appointments
       ELSE /\ appointments' = [appointments EXCEPT
                                  ![pk] = SavedAppointment(appointments[pk], new_status)]
            /\ resp' = Response("resolveAppointment", "ok", {"appointment"})
    /\ UNCHANGED <<agents, clients, properties, transactions, reviews,
                   rounding, deal, rev>>
    /\ UNCHANGED <<locations, images, prof, lst>>

\* PropertyAdmin's change form (its fieldsets list 'agent'): an admin account
\* gives the listing to another agent.
AdminChangePropertyAgent(u, ppk, aid) ==
    /\ UserType(u) = "admin"
    /\ ppk \in DOMAIN properties
    /\ aid \in DOMAIN agents
    /\ properties' = [properties EXCEPT ![ppk].agent = aid]
    /\ resp' = Response("adminChangeProperty", "ok", {"prop"})
    /\ UNCHANGED <<agents, clients, transactions, reviews, appointments,
                   rounding, deal, rev>>
    /\ UNCHANGED <<locations, images, prof, lst>>

\* The payment statuses an admin posts in the change form of a Transaction.
PaymentInputs == {"pending", "completed"}

\* TransactionAdmin's change form: every field of the model is editable but
\* the readonly commission_amount and created_at.  An admin account posts the
\* form of Transaction pk with an agent and a payment status chosen and the
\* other fields as displayed; the row is saved whole.
AdminEditTransaction(u, pk, aid, payment_status) ==
    /\ UserType(u) = "admin"
    /\ pk \in 1..Len(transactions)
    /\ aid \in DOMAIN agents
    /\ payment_status \in PaymentStatuses
    /\ transactions' = [transactions EXCEPT ![pk].agent = aid,
                                            ![pk].payment_status = payment_status]
    /\ resp' = Response("adminChangeTransaction", "ok", {"txn"})
    /\ UNCHANGED <<agents, clients, properties, reviews, appointments,
                   rounding, deal, rev>>
    /\ UNCHANGED <<locations, images, prof, lst>>

(***************************************************************************)
(* Profiles: client_profile_create, agent_profile_create and               *)
(* agent_profile_update.  Of AgentProfileForm's fields the commission rate *)
(* is kept; a Client row has no column the other operations read.          *)
(***************************************************************************)
RateInputs == {250, 10100}

\* The accounts that call the profile views: one with both its profile, an
\* agent account and a client account without any.
ProfileUsers == {"ag1", "ag3", "cl3"}

\* AgentProfileForm.is_valid(): commission_rate carries MinValueValidator(0)
\* and MaxValueValidator(100).
RateValid(rate) == rate >= 0 /\ rate <= 10000

NoListing == [street_address |-> "", city |-> << >>, status |-> "none", price |-> 0]

IdleProf ==
    [pc |-> "idle", user |-> "none", kind |-> "none", agent |-> NoAgent]

IdleLst ==
    [pc |-> "idle", op |-> "none", user |-> "none", ppk |-> NoId, agent |-> NoId,
     form |-> NoListing, location |-> NoId, property_obj |-> NoProperty,
     wrote |-> {}]

\* Agent.objects.filter(user=u).exists() / Client.objects.filter(user=u).exists()
ProfileExists(kind, u) ==
    IF kind = "agent" THEN \E a \in DOMAIN agents : agents[a].user = u
                      ELSE \E c \in DOMAIN clients : clients[c].user = u

\* The accounts for which an insert of a profile of this kind is under way.
Inserting(kind) ==
    {prof[q].user : q \in {q \in Reqs : prof[q].pc = "insert" /\ prof[q].kind = kind}}

ProfMayStart(r, kind, u) ==
    /\ prof[r].pc = "idle"
    /\ Cardinality(DOMAIN agents) + Cardinality(Inserting("agent") \cup
            (IF kind = "agent" THEN {u} ELSE {})) <= MaxAgents
    /\ Cardinality(DOMAIN clients) + Cardinality(Inserting("client") \cup
            (IF kind = "client" THEN {u} ELSE {})) <= MaxClients

\* Lines 238-244 / 285-291: the profile exists already (redirect to the update
\* view), the form is invalid, or the request goes on to insert.  Neither view
\* looks at the account's user_type.
ProfCreateCheck(r, kind, u, rate) ==
    /\ ProfMayStart(r, kind, u)
    /\ IF ProfileExists(kind, u)
       THEN /\ resp' = Response("createProfile", "exists", {})
            /\ UNCHANGED prof
       ELSE IF kind = "agent" /\ ~RateValid(rate)
       THEN /\ resp' = Response("createProfile", "invalid", {})
            /\ UNCHANGED prof
       ELSE /\ prof' = [prof EXCEPT ![r] =
                  [pc |-> "insert", user |-> u, kind |-> kind,
                   agent |-> [agent_id |-> NoId, user |-> u,
                              commission_rate |-> IF kind = "agent" THEN rate ELSE 0,
                              total_sales |-> 0]]]
            /\ UNCHANGED resp
    /\ UNCHANGED <<db, deal, rev, lst>>

\* Agent.user and Client.user are OneToOneFields: the column is unique, and
\* the store refuses a second row for the same account.
UserIsFree(kind, u) == ~ProfileExists(kind, u)

\* Lines 246-252 / 293-299: client.save() / agent.save() inserts the row with
\* the next id, total_sales at its default 0; a refused insert raises, and
\* the view answers with an error message.
ProfInsert(r) ==
    /\ prof[r].pc = "insert"
    /\ IF ~UserIsFree(prof[r].kind, prof[r].user)
       THEN /\ resp' = Response("createProfile", "error", {})
            /\ UNCHANGED <<agents, clients>>
       ELSE /\ resp' = Response("createProfile", "ok", {"profile"})
            /\ IF prof[r].kind = "agent"
               THEN /\ agents' = agents @@
                         ((Cardinality(DOMAIN agents) + 1) :>
                            [user |-> prof[r].user,
                             commission_rate |-> prof[r].agent.commission_rate,
                             total_sales |-> 0])
                    /\ UNCHANGED clients
               ELSE /\ clients' = clients @@
                         ((Cardinality(DOMAIN clients) + 1) :> [user |-> prof[r].user])
                    /\ UNCHANGED agents
    /\ prof' = [prof EXCEPT ![r] = IdleProf]
    /\ UNCHANGED <<properties, transactions, reviews, appointments, rounding,
                   locations, images, deal, rev, lst>>

\* Lines 311-315 of agent_profile_update: the account has no Agent row
\* (Http404), the form is invalid, or the loaded row goes on to be saved.
ProfUpdateLoad(r, u, rate) ==
    /\ prof[r].pc = "idle"
    /\ IF AgentOfUser(u) = NoId
       THEN /\ resp' = Response("updateProfile", "no_agent_profile", {})
            /\ UNCHANGED prof
       ELSE IF ~RateValid(rate)
       THEN /\ resp' = Response("updateProfile", "invalid", {})
            /\ UNCHANGED prof
       ELSE /\ prof' = [prof EXCEPT ![r] =
                  [pc |-> "save", user |-> u, kind |-> "agent",
                   agent |-> [agent_id |-> AgentOfUser(u), user |-> u,
                              commission_rate |-> rate,
                              total_sales |-> agents[AgentOfUser(u)].total_sales]]]
            /\ UNCHANGED resp
    /\ UNCHANGED <<db, deal, rev, lst>>

\* AgentProfileForm lists no total_sales field: form.save() writes the value
\* the instance was loaded with.
SavedTotalSales(loaded) == loaded

\* Line 317: form.save() writes every column of the instance loaded at line
\* 311, the form's fields changed.
ProfUpdateSave(r) ==
    /\ prof[r].pc = "save"
    /\ agents' = [agents EXCEPT ![prof[r].agent.agent_id] =
          [user |-> prof[r].agent.user,
           commission_rate |-> prof[r].agent.commission_rate,
           total_sales |-> SavedTotalSales(prof[r].agent.total_sales)]]
    /\ prof' = [prof EXCEPT ![r] = IdleProf]
    /\ resp' = Response("updateProfile", "ok", {"agent"})
    /\ UNCHANGED <<clients, properties, transactions, reviews, appointments,
                   rounding, locations, images, deal, rev, lst>>

(***************************************************************************)
(* createListing and updateListing: property_create_view and               *)
(* property_update_view, POST.  Of PropertyForm's fields the street        *)
(* address (a Location column) and the status (a Property column) are      *)
(* kept.                                                                   *)
(***************************************************************************)
MaxLocs == 2

AddressInputs == {"", "a2"}
ListingStatusInputs == {"available", "off_market"}

\* Text that is searched (a city) is a sequence of characters.
Boston == <<"B", "o", "s", "t", "o", "n">>
ListedPrice == 150

\* The forms posted: the city and the price are those of the first listing.
ListingForms ==
    [street_address : AddressInputs, city : {Boston},
     status : ListingStatusInputs, price : {ListedPrice}]

\* PropertyForm.is_valid(): street_address is required; the status is one of
\* the model's choices.
ListingValid(form) ==
    /\ form.street_address # ""
    /\ form.city # << >>
    /\ form.status \in PropertyStatuses
    /\ form.price >= 0

\* Lines 421-428 of property_create_view: the response that turns the caller
\* away, "pass" for an agent with a profile.  An agent account without a
\* profile is redirected to agent_profile_create.
CreateAccess(u) ==
    IF UserType(u) # "agent" THEN "not_agent"
    ELSE IF AgentOfUser(u) = NoId THEN "no_agent_profile"
    ELSE "pass"

\* An access check that lets every caller through to an existing listing.
UpdateAccessOpen(u, ppk) ==
    IF ppk \notin DOMAIN properties THEN "no_property" ELSE "pass"

\* Lines 468-479 of property_update_view (and 514-525 of
\* property_delete_view): get_object_or_404 comes first, then the account
\* type, then the caller's profile against the listing's agent.
UpdateAccess(u, ppk) ==
    IF ppk \notin DOMAIN properties THEN "no_property"
    ELSE IF UserType(u) # "agent" THEN "not_agent"
    ELSE IF AgentOfUser(u) = NoId THEN "no_agent_profile"
    ELSE IF properties[ppk].agent # AgentOfUser(u) THEN "not_owner"
    ELSE "pass"

\* A request slot is free.
LstMayStart(r) == lst[r].pc = "idle"

\* Lines 421-434 and 450-454 of property_create_view: the caller is turned
\* away, the form is invalid, or the request goes on to its two writes.  The
\* model's bound on the Locations table leaves room for the row.
LstCreateStart(r, u, form) ==
    /\ LstMayStart(r)
    /\ Cardinality(DOMAIN locations)
          + Cardinality({q \in Reqs : lst[q].pc = "createLocation"}) < MaxLocs
    /\ IF CreateAccess(u) # "pass"
       THEN /\ resp' = Response("createListing", CreateAccess(u), {})
            /\ UNCHANGED lst
       ELSE IF ~ListingValid(form)
       THEN /\ resp' = Response("createListing", "invalid", {})
            /\ UNCHANGED lst
       ELSE /\ lst' = [lst EXCEPT ![r] =
                  [IdleLst EXCEPT !.pc = "createLocation", !.op = "createListing",
                                  !.user = u, !.agent = AgentOfUser(u),
                                  !.form = form]]
            /\ UNCHANGED resp
    /\ UNCHANGED <<db, deal, rev, prof>>

\* Lines 436-442: Location.objects.create(...) inserts the row and commits.
LstCreateLocation(r) ==
    /\ lst[r].pc = "createLocation"
    /\ LET lid == Cardinality(DOMAIN locations) + 1
       IN  /\ locations' = locations @@
                  (lid :> [street_address |-> lst[r].form.street_address,
                           city |-> lst[r].form.city])
           /\ lst' = [lst EXCEPT ![r].pc = "saveProperty", ![r].location = lid,
                                 ![r].wrote = @ \cup {"location"}]
    /\ UNCHANGED <<agents, clients, properties, transactions, reviews,
                   appointments, rounding, images, deal, rev, prof, resp>>

\* Lines 445-451: property_obj.save() inserts the Property with the new
\* Location and the caller's Agent.  Ids are opaque: the model numbers the
\* Property after its Location, which no operation deletes, so that no id
\* is used twice.
LstCreateProperty(r) ==
    /\ lst[r].pc = "saveProperty" /\ lst[r].op = "createListing"
    /\ properties' = properties @@
          (lst[r].location :>
              [agent |-> lst[r].agent, status |-> lst[r].form.status,
               sold_date |-> NoDate, location |-> lst[r].location,
               price |-> lst[r].form.price])
    /\ lst' = [lst EXCEPT ![r] = IdleLst]
    /\ resp' = Response("createListing", "ok", lst[r].wrote \cup {"prop"})
    /\ UNCHANGED <<agents, clients, transactions, reviews, appointments,
                   rounding, locations, images, deal, rev, prof>>

\* Lines 468-484 of property_update_view: the caller is turned away, the form
\* is invalid (the form is rendered again), or the request goes on to its
\* two writes with the Property object loaded at line 468.
LstUpdateStart(r, u, ppk, form) ==
    /\ LstMayStart(r)
    /\ IF UpdateAccess(u, ppk) # "pass"
       THEN /\ resp' = Response("updateListing", UpdateAccess(u, ppk), {})
            /\ UNCHANGED lst
       ELSE IF ~ListingValid(form)
       THEN /\ resp' = Response("updateListing", "invalid", {})
            /\ UNCHANGED lst
       ELSE /\ lst' = [lst EXCEPT ![r] =
                  [IdleLst EXCEPT !.pc = "saveLocation", !.op = "updateListing",
                                  !.user = u, !.ppk = ppk,
                                  !.agent = AgentOfUser(u), !.form = form,
                                  !.property_obj = properties[ppk]]]
            /\ UNCHANGED resp
    /\ UNCHANGED <<db, deal, rev, prof>>

\* An update that writes the address to a new Location row.
SavedLocationsNewRow(location, form) ==
    locations @@ ((Cardinality(DOMAIN locations) + 1) :>
                     [street_address |-> form.street_address, city |-> form.city])

\* Lines 486-492: the Location the Property object refers to is loaded, its
\* address fields are assigned and location.save() updates that row.
SavedLocations(location, form) ==
    [locations EXCEPT ![location].street_address = form.street_address,
                      ![location].city = form.city]

LstUpdateLocation(r) ==
    /\ lst[r].pc = "saveLocation"
    /\ locations' = SavedLocations(lst[r].property_obj.location, lst[r].form)
    /\ lst' = [lst EXCEPT ![r].pc = "saveProperty",
                          ![r].location = lst[r].property_obj.location,
                          ![r].wrote = @ \cup {"location"}]
    /\ UNCHANGED <<agents, clients, properties, transactions, reviews,
                   appointments, rounding, images, deal, rev, prof, resp>>

\* Line 495: form.save() writes every column of the Property object loaded at
\* line 468, with the form's fields assigned.
LstUpdateProperty(r) ==
    /\ lst[r].pc = "saveProperty" /\ lst[r].op = "updateListing"
    /\ lst[r].ppk \in DOMAIN properties
    /\ properties' = [properties EXCEPT ![lst[r].ppk] =
          [lst[r].property_obj EXCEPT !.status = lst[r].form.status,
                                      !.price = lst[r].form.price]]
    /\ lst' = [lst EXCEPT ![r] = IdleLst]
    /\ resp' = Response("updateListing", "ok", lst[r].wrote \cup {"prop"})
    /\ UNCHANGED <<agents, clients, transactions, reviews, appointments,
                   rounding, locations, images, deal, rev, prof>>

\* Lines 452-453 / 499-500: one of the two writes raises (a storage error);
\* the handler catches it and reports it.  What was saved before stays saved.
LstFail(r) ==
    /\ lst[r].pc \in {"createLocation", "saveLocation", "saveProperty"}
    /\ lst' = [lst EXCEPT ![r] = IdleLst]
    /\ resp' = Response(lst[r].op, "error", lst[r].wrote)
    /\ UNCHANGED <<db, deal, rev, prof>>

(***************************************************************************)
(* deleteListing: property_delete_view, POST.  property_obj.delete() runs  *)
(* the ORM's collector inside one transaction: the handler is one step.    *)
(***************************************************************************)
\* The rows of a table that refer to Property ppk.
RefersTo(rows, ppk) == {i \in 1..Len(rows) : rows[i].property = ppk}

\* on_delete=CASCADE (PropertyImage.property, Appointment.property): the rows
\* of the Property go, the others stay in their order.
Cascade(rows, ppk) == SelectSeq(rows, LAMBDA row : row.property # ppk)

\* A Review table whose rows go with the Property.
ReviewsAfterDeleteCascade(ppk) == Cascade(reviews, ppk)

\* on_delete=SET_NULL (Review.property): the rows stay, their property
\* column set to null.
ReviewsAfterDelete(ppk) ==
    [i \in 1..Len(reviews) |->
        IF reviews[i].property = ppk
        THEN [reviews[i] EXCEPT !.property = NoId]
        ELSE reviews[i]]

\* The tables in which the delete removed or changed rows.
DeleteWrites(ppk) ==
    {"prop"}
       \cup (IF RefersTo(images, ppk) # {} THEN {"images"} ELSE {})
       \cup (IF RefersTo(appointments, ppk) # {} THEN {"appointments"} ELSE {})
       \cup (IF RefersTo(reviews, ppk) # {} THEN {"reviews"} ELSE {})

\* A collector that refuses nothing.
DeleteRestrictedNever(ppk) == FALSE

\* on_delete=RESTRICT (Transaction.property): the collector of line 530
\* refuses a Property that a Transaction refers to.
DeleteRestricted(ppk) == RefersTo(transactions, ppk) # {}

\* Lines 514-525 turn the caller away as property_update_view does.  Line
\* 530: the collector raises when a Transaction refers to the Property
\* (on_delete=RESTRICT) before it deletes anything, and the handler reports
\* the error; otherwise the Property goes with its cascades.
DeleteProperty(u, ppk) ==
    /\ IF UpdateAccess(u, ppk) # "pass"
       THEN /\ resp' = Response("deleteListing", UpdateAccess(u, ppk), {})
            /\ UNCHANGED <<properties, images, appointments, reviews>>
       ELSE IF DeleteRestricted(ppk)
       THEN /\ resp' = Response("deleteListing", "restricted", {})
            /\ UNCHANGED <<properties, images, appointments, reviews>>
       ELSE /\ properties' = [p \in DOMAIN properties \ {ppk} |-> properties[p]]
            /\ images' = Cascade(images, ppk)
            /\ appointments' = Cascade(appointments, ppk)
            /\ reviews' = ReviewsAfterDelete(ppk)
            /\ resp' = Response("deleteListing", "ok", DeleteWrites(ppk))
    /\ UNCHANGED <<agents, clients, transactions, rounding, locations,
                   deal, rev, prof, lst>>

(***************************************************************************)
(* queryListings: property_list_view, GET.  Of PropertySearchForm's        *)
(* filters the price band, the city and the status are kept.  An optional  *)
(* number is a sequence of length 0 (omitted, None) or 1; an omitted text  *)
(* or choice is empty.                                                     *)
(***************************************************************************)
Salem == <<"S", "a", "l", "e", "m">>

\* Case folding of the characters in use.
Lower(ch) ==
    CASE ch = "B" -> "b"
      [] ch = "S" -> "s"
      [] OTHER -> ch

\* __icontains: needle occurs in text, case ignored.
IContains(text, needle) ==
    \E i \in 0..(Len(text) - Len(needle)) :
       \A j \in 1..Len(needle) : Lower(text[i + j]) = Lower(needle[j])

MinPriceInputs == {<< >>, <<150>>}
MaxPriceInputs == {<< >>, <<0>>, <<150>>}
CityInputs == {<< >>, <<"b", "o", "s">>}
StatusFilterInputs == {"", "available", "sold", "off_market"}

Queries ==
    [min_price : MinPriceInputs, max_price : MaxPriceInputs,
     city : CityInputs, status : StatusFilterInputs]

\* forms.py 194-204: the choices of the status filter.
SearchValid(q) == q.status \in {"", "available", "pending", "sold", "rented"}

\* `if min_price:` and the like: None and zero are both false.
Truthy(number) == Len(number) = 1 /\ number[1] # 0

\* Lines 334-376: the queryset starts from the available Properties; when
\* the form is valid each filter whose value is true narrows it.
Listed(q) ==
    LET base == {p \in DOMAIN properties : properties[p].status = "available"}
        by_min == IF Truthy(q.min_price)
                  THEN {p \in base : properties[p].price >= q.min_price[1]}
                  ELSE base
        by_max == IF Truthy(q.max_price)
                  THEN {p \in by_min : properties[p].price <= q.max_price[1]}
                  ELSE by_min
        by_city == IF q.city # << >>
                   THEN {p \in by_max :
                           IContains(locations[properties[p].location].city, q.city)}
                   ELSE by_max
        by_status == IF q.status # ""
                     THEN {p \in by_city : properties[p].status = q.status}
                     ELSE by_city
    IN  IF SearchValid(q) THEN by_status ELSE base

\* The response of a query carries the query and the Properties listed.
QueryListings(q) ==
    /\ resp' = [op |-> "queryListings", result |-> "ok", wrote |-> {},
                query |-> q, found |-> Listed(q)]
    /\ UNCHANGED <<db, deal, rev, prof, lst>>

(***************************************************************************)
(* Initial state: the accounts are registered; the agents ag1 and ag2 and  *)
(* the clients cl1 and cl2 have completed their profiles (ag3 and cl3 have *)
(* not), and ag1 has listed one property.  PropertyForm carries the status *)
(* field, so the listing has the status its agent chose; sold_date is no   *)
(* field of the form and starts null.  Nothing has been booked or sold.    *)
(***************************************************************************)
Init ==
    /\ agents = (1 :> [user |-> "ag1", commission_rate |-> DefaultCommissionRate, total_sales |-> 0])
             @@ (2 :> [user |-> "ag2", commission_rate |-> DefaultCommissionRate, total_sales |-> 0])
    /\ clients = (1 :> [user |-> "cl1"]) @@ (2 :> [user |-> "cl2"])
    /\ \E s1 \in {"available", "pending", "off_market"} :
         properties = (1 :> [agent |-> 1, status |-> s1, sold_date |-> NoDate,
                             price |-> ListedPrice,
                             location |-> 1])
    /\ locations = (1 :> [street_address |-> "a1", city |-> Boston])
    /\ images = <<[property |-> 1]>>
    /\ rounding \in {"half_even", "half_up"}
    /\ transactions = << >>
    /\ reviews = << >>
    /\ appointments = << >>
    /\ deal = [r \in Reqs |-> IdleDeal]
    /\ rev = [r \in Reqs |-> IdleRev]
    /\ prof = [r \in Reqs |-> IdleProf]
    /\ lst = [r \in Reqs |-> IdleLst]
    /\ resp = Response("none", "none", {})

\* A closeDeal request arrives: any account, any property id, any form.
DealStart(r) ==
    /\ DealMayStart(r)
    /\ \E u \in Users, ppk \in PropertyPks :
          \/ DealDenied(r, u, ppk)
          \/ /\ DealAccess(u, ppk) = "pass"
             /\ \E form \in TransactionForms, cid \in ClientIdInputs :
                   DealLoad(r, u, ppk, form, cid)

DealStep(r) ==
    \/ DealStart(r)
    \/ DealInsert(r)
    \/ DealSaveProperty(r)
    \/ DealSaveAgent(r)
    \/ DealFail(r)

\* closeDeal requests arriving at any time: their statements interleave.
NextDeal == \E r \in Reqs : DealStep(r)

SpecDeal == Init /\ [][NextDeal]_vars

\* closeDeal requests served one at a time: a request starts only when no
\* other is in flight.
NextDealSeq ==
    \E r \in Reqs :
       \/ /\ \A q \in Reqs \ {r} : deal[q].pc = "idle"
          /\ DealStart(r)
       \/ DealInsert(r)
       \/ DealSaveProperty(r)
       \/ DealSaveAgent(r)
       \/ DealFail(r)

SpecDealSeq == Init /\ [][NextDealSeq]_vars

\* A submitReview request arrives: any account, any property id, any rating.
RevStart(r) ==
    /\ RevMayStart(r)
    /\ \E u \in Users, ppk \in PropertyPks :
          \/ RevDenied(r, u, ppk)
          \/ /\ RevAccess(u, ppk) = "pass"
             /\ \E rating \in RatingInputs : RevCheck(r, u, ppk, rating)

\* submitReview requests arriving at any time: their statements interleave.
NextReview ==
    \E r \in Reqs :
       \/ RevStart(r)
       \/ RevInsert(r)
       \/ RevFail(r)

SpecReview == Init /\ [][NextReview]_vars

\* submitReview requests served one at a time.
NextReviewSeq ==
    \E r \in Reqs :
       \/ /\ \A q \in Reqs \ {r} : rev[q].pc = "idle"
          /\ RevStart(r)
       \/ RevInsert(r)
       \/ RevFail(r)

SpecReviewSeq == Init /\ [][NextReviewSeq]_vars

NextAppt ==
    \/ \E u \in Users, ppk \in PropertyPks, duration \in DurationInputs :
          ScheduleAppointment(u, ppk, duration)
    \/ \E u \in Users, pk \in 1..MaxAppts, new_status \in StatusInputs :
          ResolveAppointment(u, pk, new_status)

SpecAppt == Init /\ [][NextAppt]_vars

\* The appointment operations, with listings changing hands meanwhile.
NextApptAgent ==
    \/ NextAppt
    \/ \E u \in Users, ppk \in PropertyPks, aid \in DOMAIN agents :
          AdminChangePropertyAgent(u, ppk, aid)

\* One of the initial states: the listing available, the deployment rounding
\* half-even.  The specifications that start here are about rows written
\* after the start, whatever the listing's first status and the rounding.
InitAvailable ==
    /\ Init
    /\ rounding = "half_even"
    /\ \A ppk \in DOMAIN properties : properties[ppk].status = "available"

SpecApptAgent == InitAvailable /\ [][NextApptAgent]_vars

\* No request is in flight.
AllIdle ==
    \A q \in Reqs :
       /\ deal[q].pc = "idle" /\ rev[q].pc = "idle"
       /\ prof[q].pc = "idle" /\ lst[q].pc = "idle"

\* A profile request arrives: a create call of an account for one of the
\* kinds of profile, or an agent profile update.
ProfStart(r, kinds) ==
    /\ prof[r].pc = "idle"
    /\ \/ \E kind \in kinds, u \in ProfileUsers, rate \in RateInputs :
             ProfCreateCheck(r, kind, u, rate)
       \/ \E u \in ProfileUsers, rate \in RateInputs : ProfUpdateLoad(r, u, rate)

\* Profile requests arriving at any time: their statements interleave.
NextProfile ==
    \E r \in Reqs :
       \/ ProfStart(r, {"agent", "client"})
       \/ ProfInsert(r)
       \/ ProfUpdateSave(r)

SpecProfile == Init /\ [][NextProfile]_vars

\* A closeDeal request and an agent profile request in flight together: the
\* statements of the one interleave with those of the other.
NextAgent ==
    \E r, q \in Reqs :
       /\ r # q
       /\ \A o \in Reqs \ {r} : deal[o].pc = "idle"
       /\ \A o \in Reqs \ {q} : prof[o].pc = "idle"
       /\ \/ DealStep(r)
          \/ ProfStart(q, {"agent"})
          \/ ProfInsert(q)
          \/ ProfUpdateSave(q)

SpecAgent == InitAvailable /\ [][NextAgent]_vars

\* A listing request arrives: any account, any property id, any form.
LstStart(r) ==
    \/ \E u \in Users, form \in ListingForms : LstCreateStart(r, u, form)
    \/ \E u \in Users, ppk \in PropertyPks, form \in ListingForms :
          LstUpdateStart(r, u, ppk, form)

\* createListing and updateListing requests arriving at any time: their
\* statements interleave.
NextListing ==
    \E r \in Reqs :
       \/ LstStart(r)
       \/ LstCreateLocation(r)
       \/ LstCreateProperty(r)
       \/ LstUpdateLocation(r)
       \/ LstUpdateProperty(r)
       \/ LstFail(r)

SpecListing == InitAvailable /\ [][NextListing]_vars

\* createListing and updateListing requests served one at a time.
NextListingSeq ==
    \E r \in Reqs :
       \/ /\ AllIdle
          /\ LstStart(r)
       \/ LstCreateLocation(r)
       \/ LstCreateProperty(r)
       \/ LstUpdateLocation(r)
       \/ LstUpdateProperty(r)
       \/ LstFail(r)

SpecListingSeq == InitAvailable /\ [][NextListingSeq]_vars

\* The accounts that act on listings here: the agent of the first listing,
\* another agent and a client, each with a profile.
DeleteUsers == {"ag1", "ag2", "cl1"}

\* Listings created, visited, reviewed and deleted, the requests served one
\* at a time.
NextDelete ==
    \E r \in Reqs :
       \/ /\ AllIdle
          /\ \E u \in DeleteUsers :
                \/ \E form \in ListingForms : LstCreateStart(r, u, form)
                \/ \E ppk \in PropertyPks, duration \in DurationInputs :
                      ScheduleAppointment(u, ppk, duration)
                \/ \E ppk \in PropertyPks, rating \in RatingInputs :
                      RevDenied(r, u, ppk) \/ RevCheck(r, u, ppk, rating)
                \/ \E ppk \in PropertyPks : DeleteProperty(u, ppk)
       \/ LstCreateLocation(r)
       \/ LstCreateProperty(r)
       \/ LstFail(r)
       \/ RevInsert(r)
       \/ RevFail(r)

SpecDelete == InitAvailable /\ [][NextDelete]_vars

\* The life of a Transaction: closeDeal, the agent's profile update and the
\* admin's change form, served one at a time.
NextTxnLife ==
    \E r \in Reqs :
       \/ /\ AllIdle
          /\ \/ DealStart(r)
             \/ \E u \in ProfileUsers, rate \in RateInputs : ProfUpdateLoad(r, u, rate)
             \/ \E u \in Users, pk \in 1..MaxTxns, aid \in DOMAIN agents,
                   payment_status \in PaymentInputs :
                   AdminEditTransaction(u, pk, aid, payment_status)
       \/ DealInsert(r)
       \/ DealSaveProperty(r)
       \/ DealSaveAgent(r)
       \/ DealFail(r)
       \/ ProfUpdateSave(r)

SpecTxnLife == InitAvailable /\ [][NextTxnLife]_vars

\* closeDeal and updateListing requests served one at a time.
NextDealListingSeq ==
    \E r \in Reqs :
       \/ /\ AllIdle
          /\ \/ DealStart(r)
             \/ \E u \in Users, ppk \in PropertyPks, form \in ListingForms :
                   LstUpdateStart(r, u, ppk, form)
       \/ DealInsert(r)
       \/ DealSaveProperty(r)
       \/ DealSaveAgent(r)
       \/ DealFail(r)
       \/ LstUpdateLocation(r)
       \/ LstUpdateProperty(r)
       \/ LstFail(r)

SpecDealListingSeq == InitAvailable /\ [][NextDealListingSeq]_vars

\* The forms of transaction_create_view with the lease dates filled in or
\* left empty.
LeaseForms ==
    [transaction_type : TransactionTypes, transaction_date : {1},
     final_price : {150}, payment_status : {"pending"},
     lease_start_date : {NoDate, 1}, lease_end_date : {NoDate, 2}]

\* A closeDeal request arrives with one of these forms.
LeaseStart(r) ==
    /\ DealMayStart(r)
    /\ \E u \in Users, ppk \in PropertyPks :
          \/ DealDenied(r, u, ppk)
          \/ /\ DealAccess(u, ppk) = "pass"
             /\ \E form \in LeaseForms, cid \in ClientIdInputs :
                   DealLoad(r, u, ppk, form, cid)

\* closeDeal requests with lease dates, served one at a time.
NextLease ==
    \E r \in Reqs :
       \/ /\ AllIdle
          /\ LeaseStart(r)
       \/ DealInsert(r)
       \/ DealSaveProperty(r)
       \/ DealSaveAgent(r)
       \/ DealFail(r)

SpecLease == InitAvailable /\ [][NextLease]_vars

\* The state after ag1 has listed a second property: both listings are
\* available and nothing has been booked or sold.
InitTwoListings ==
    /\ agents = (1 :> [user |-> "ag1", commission_rate |-> DefaultCommissionRate, total_sales |-> 0])
             @@ (2 :> [user |-> "ag2", commission_rate |-> DefaultCommissionRate, total_sales |-> 0])
    /\ clients = (1 :> [user |-> "cl1"]) @@ (2 :> [user |-> "cl2"])
    /\ properties =
          (1 :> [agent |-> 1, status |-> "available", sold_date |-> NoDate,
                 price |-> ListedPrice, location |-> 1])
          @@ (2 :> [agent |-> 1, status |-> "available", sold_date |-> NoDate,
                    price |-> ListedPrice, location |-> 2])
    /\ locations = (1 :> [street_address |-> "a1", city |-> Boston])
                   @@ (2 :> [street_address |-> "a2", city |-> Boston])
    /\ images = <<[property |-> 1]>>
    /\ rounding = "half_even"
    /\ transactions = << >>
    /\ reviews = << >>
    /\ appointments = << >>
    /\ deal = [r \in Reqs |-> IdleDeal]
    /\ rev = [r \in Reqs |-> IdleRev]
    /\ prof = [r \in Reqs |-> IdleProf]
    /\ lst = [r \in Reqs |-> IdleLst]
    /\ resp = Response("none", "none", {})

\* closeDeal requests arriving at any time, none of their save() calls
\* failing: a request that gets to its insert succeeds.
NextTwoDeals ==
    \E r \in Reqs :
       \/ DealStart(r)
       \/ DealInsert(r)
       \/ DealSaveProperty(r)
       \/ DealSaveAgent(r)

SpecTwoDeals == InitTwoListings /\ [][NextTwoDeals]_vars

\* The form of an update that changes the price only.
RepriceForms ==
    [street_address : {"a1"}, city : {Boston}, status : {"available"},
     price : {200}]

\* A closeDeal request and an updateListing request in flight together: the
\* statements of the one interleave with those of the other.
NextDealListing ==
    \E r, q \in Reqs :
       /\ r # q
       /\ \A o \in Reqs \ {r} : deal[o].pc = "idle"
       /\ \A o \in Reqs \ {q} : lst[o].pc = "idle"
       /\ \/ DealStep(r)
          \/ \E u \in Users, ppk \in PropertyPks, form \in RepriceForms :
                LstUpdateStart(q, u, ppk, form)
          \/ LstUpdateLocation(q)
          \/ LstUpdateProperty(q)
          \/ LstFail(q)

SpecDealListing == InitAvailable /\ [][NextDealListing]_vars

\* The form of a sale at the listed price.
SaleForms ==
    [transaction_type : {"sale"}, transaction_date : {1},
     final_price : {ListedPrice}, payment_status : {"pending"},
     lease_start_date : {NoDate}, lease_end_date : {NoDate}]

\* A closeDeal request of one of the accounts at hand arrives with that
\* form, the buyer being the first client.
SaleStart(r) ==
    \E u \in DeleteUsers, ppk \in PropertyPks :
       \/ DealDenied(r, u, ppk)
       \/ \E form \in SaleForms : DealLoad(r, u, ppk, form, 1)

\* Deals closed and listings visited, reviewed and deleted, the requests
\* served one at a time.
NextDeleteDeal ==
    \E r \in Reqs :
       \/ /\ AllIdle
          /\ \/ SaleStart(r)
             \/ \E u \in DeleteUsers, ppk \in PropertyPks :
                   \/ \E duration \in DurationInputs :
                         ScheduleAppointment(u, ppk, duration)
                   \/ \E rating \in RatingInputs :
                         RevDenied(r, u, ppk) \/ RevCheck(r, u, ppk, rating)
                   \/ DeleteProperty(u, ppk)
       \/ DealInsert(r)
       \/ DealSaveProperty(r)
       \/ DealSaveAgent(r)
       \/ DealFail(r)
       \/ RevInsert(r)
       \/ RevFail(r)

SpecDeleteDeal == InitAvailable /\ [][NextDeleteDeal]_vars

QueryStatuses == {"available", "sold"}
QueryPrices == {0, ListedPrice}
QueryCities == {Boston, Salem}

\* The tables a query runs on: the accounts and profiles of Init and two
\* listings of ag1 as createListing and updateListing leave them, each with
\* a status, a price and a city.
InitQuery ==
    /\ agents = (1 :> [user |-> "ag1", commission_rate |-> DefaultCommissionRate, total_sales |-> 0])
             @@ (2 :> [user |-> "ag2", commission_rate |-> DefaultCommissionRate, total_sales |-> 0])
    /\ clients = (1 :> [user |-> "cl1"]) @@ (2 :> [user |-> "cl2"])
    /\ \E s1, s2 \in QueryStatuses, p1, p2 \in QueryPrices :
         properties =
            (1 :> [agent |-> 1, status |-> s1, sold_date |-> NoDate,
                   price |-> p1, location |-> 1])
            @@ (2 :> [agent |-> 1, status |-> s2, sold_date |-> NoDate,
                      price |-> p2, location |-> 2])
    /\ \E c1, c2 \in QueryCities :
         locations = (1 :> [street_address |-> "a1", city |-> c1])
                     @@ (2 :> [street_address |-> "a2", city |-> c2])
    /\ images = <<[property |-> 1]>>
    /\ rounding = "half_even"
    /\ transactions = << >>
    /\ reviews = << >>
    /\ appointments = << >>
    /\ deal = [r \in Reqs |-> IdleDeal]
    /\ rev = [r \in Reqs |-> IdleRev]
    /\ prof = [r \in Reqs |-> IdleProf]
    /\ lst = [r \in Reqs |-> IdleLst]
    /\ resp = Response("none", "none", {})

NextQuery == \E q \in Queries : QueryListings(q)

SpecQuery == InitQuery /\ [][NextQuery]_vars

\* The whole program: every operation, requests interleaving.
Next ==
    \/ NextDeal
    \/ NextReview
    \/ NextAppt
    \/ NextProfile
    \/ NextListing
    \/ NextQuery
    \/ \E u \in Users, ppk \in PropertyPks : DeleteProperty(u, ppk)
    \/ \E u \in Users, ppk \in PropertyPks, aid \in DOMAIN agents :
          AdminChangePropertyAgent(u, ppk, aid)
    \/ \E u \in Users, pk \in 1..MaxTxns, aid \in DOMAIN agents,
          payment_status \in PaymentInputs :
          AdminEditTransaction(u, pk, aid, payment_status)

Spec == Init /\ [][Next]_vars

(***************************************************************************)
(* Properties of closeDeal.                                                *)
(***************************************************************************)
AllDealWrites == {"txn", "prop", "agent"}

Quiescent == \A r \in Reqs : deal[r].pc = "idle"

\* The account u has an Agent profile and that profile is the property's agent.
CallerIsBound(u, ppk) ==
    /\ AgentOfUser(u) # NoId
    /\ properties[ppk].agent = AgentOfUser(u)

\* The step is the arrival of a closeDeal request of account u on property ppk.
CloseDealBy(r, u, ppk) ==
    /\ DealMayStart(r)
    /\ \/ DealDenied(r, u, ppk)
       \/ /\ DealAccess(u, ppk) = "pass"
          /\ \E form \in TransactionForms, cid \in ClientIdInputs :
                DealLoad(r, u, ppk, form, cid)

\* C1: closeDeal is all-or-nothing: whenever a closeDeal request has returned,
\* also after one of its save() calls failed, it has written either all three
\* rows (Transaction, Property, Agent) or none of them.
C1_AllOrNothing ==
    resp.op = "closeDeal" => resp.wrote \in {{}, AllDealWrites}

\* C2: no closeDeal request gets as far as inserting a Transaction for a
\* Property it read with a status other than available or pending (a Property
\* that is sold, rented or off_market is left alone).
C2_OnlyOpenPropertyIsClosed ==
    \A r \in Reqs :
       "txn" \in deal[r].wrote =>
           deal[r].property_obj.status \in {"available", "pending"}

\* C3: of two closeDeal requests that both read the same Property as
\* available, at most one inserts a Transaction (the other sees the state
\* conflict), so no two Transactions come out of the pair.
C3_OneOfTwoConcurrentDeals ==
    \A r1, r2 \in Reqs :
       ( /\ r1 # r2
         /\ deal[r1].ppk = deal[r2].ppk
         /\ deal[r1].property_obj.status = "available"
         /\ deal[r2].property_obj.status = "available"
         /\ "txn" \in deal[r1].wrote )
       => "txn" \notin deal[r2].wrote

\* C4: every Transaction's commission_amount is final_price x commission_rate
\* / 100 rounded half-up to the cent.
C4_CommissionHalfUp ==
    \A i \in DOMAIN transactions :
       transactions[i].commission_amount =
          RoundHalfUp(transactions[i].final_price
                         * agents[transactions[i].agent].commission_rate, 10000)

\* C5: when a closeDeal request has just returned success, the Property of
\* the Transaction it created is sold for a sale and rented for a rental, and
\* the Property's sold_date is the Transaction's transaction_date.
C5_StatusAndSoldDate ==
    (resp.op = "closeDeal" /\ resp.result = "ok" /\ Quiescent) =>
        LET t == transactions[Len(transactions)]
        IN  /\ properties[t.property].status =
                  (IF t.transaction_type = "sale" THEN "sold" ELSE "rented")
            /\ properties[t.property].sold_date = t.transaction_date

\* A sale and a rental have each been closed successfully.
C5_Witness ==
    /\ resp.op = "closeDeal" /\ resp.result = "ok" /\ Quiescent
    /\ Len(transactions) = 2
    /\ transactions[1].transaction_type # transactions[2].transaction_type
    /\ transactions[1].transaction_date # transactions[2].transaction_date

C7_UnknownClientNoWrite ==
    /\ [](/\ \A r \in Reqs : deal[r].pc # "idle" => deal[r].client \in DOMAIN clients
          /\ \A i \in DOMAIN transactions : transactions[i].client \in DOMAIN clients)
    /\ [][\A r \in Reqs :
            DealMayStart(r) =>
              \A u \in Users, ppk \in PropertyPks :
                DealAccess(u, ppk) = "pass" =>
                  \A form \in TransactionForms, cid \in ClientIdInputs :
                    ( /\ FormValid(form) /\ cid # NoId /\ cid \notin DOMAIN clients
                      /\ DealLoad(r, u, ppk, form, cid) ) =>
                        /\ resp' = Response("closeDeal", "no_client", {})
                        /\ ResultKind(resp'.result) = "not_found"
                        /\ UNCHANGED <<db, deal>>]_vars

\* A closeDeal naming an unknown client has been turned away, after an
\* earlier one with a known client went through.
C7_Witness ==
    /\ resp = Response("closeDeal", "no_client", {})
    /\ Len(transactions) > 0

(***************************************************************************)
(* Properties of submitReview.                                             *)
(***************************************************************************)
\* A Review of client cid for property ppk is stored.
HasReview(cid, ppk) ==
    \E i \in DOMAIN reviews : reviews[i].client = cid /\ reviews[i].property = ppk

\* No two Review rows have the same client and the same property.
OneReviewPerPair ==
    \A i, j \in DOMAIN reviews :
       (reviews[i].client = reviews[j].client
          /\ reviews[i].property = reviews[j].property) => i = j

\* The step is the arrival of a submitReview request of account u on ppk.
SubmitReviewBy(r, u, ppk) ==
    /\ RevMayStart(r)
    /\ \/ RevDenied(r, u, ppk)
       \/ /\ RevAccess(u, ppk) = "pass"
          /\ \E rating \in RatingInputs : RevCheck(r, u, ppk, rating)

\* C8: with submitReview calls served one after the other, every (client,
\* property) pair has at most one Review, and a call of a client for a
\* property the client has already reviewed is answered with a duplicate
\* conflict and creates no Review row.
C8_SecondReviewRejected ==
    /\ []OneReviewPerPair
    /\ [][\A r \in Reqs, u \in Users, ppk \in DOMAIN properties :
            ( /\ UserType(u) = "client"
              /\ ClientOfUser(u) # NoId
              /\ HasReview(ClientOfUser(u), ppk)
              /\ SubmitReviewBy(r, u, ppk) ) =>
                /\ resp' = Response("submitReview", "duplicate", {})
                /\ ResultKind(resp'.result) = "state_conflict"
                /\ UNCHANGED <<db, rev>>]_vars

\* A client's second submitReview for a property has been turned away as a
\* duplicate while the first Review is stored.
C8_Witness ==
    /\ resp = Response("submitReview", "duplicate", {})
    /\ Len(reviews) >= 1

\* C9: with submitReview calls interleaving, there is in every reachable
\* state at most one Review per (client, property) pair.
C9_OneReviewPerPairConcurrent ==
    \A cid \in DOMAIN clients, ppk \in DOMAIN properties :
       Cardinality({i \in DOMAIN reviews :
                       reviews[i].client = cid /\ reviews[i].property = ppk}) <= 1

(***************************************************************************)
(* Properties of resolveAppointment.                                       *)
(***************************************************************************)
\* C10: an Appointment's status changes only from scheduled to one of
\* completed, cancelled or no_show; a resolve of an appointment that is
\* already completed, cancelled or no_show leaves the status as it is, and
\* no resolve sets a status back to scheduled.
C10_OnlyScheduledIsResolved ==
    [][\A pk \in DOMAIN appointments :
          appointments'[pk].status # appointments[pk].status =>
              /\ appointments[pk].status = "scheduled"
              /\ appointments'[pk].status \in {"completed", "cancelled", "no_show"}]_vars

\* The account u is the appointment's client, the appointment's agent, or an
\* admin account.
MayResolve(u, pk) ==
    \/ UserType(u) = "admin"
    \/ UserType(u) = "client" /\ ClientOfUser(u) # NoId
          /\ appointments[pk].client = ClientOfUser(u)
    \/ UserType(u) = "agent" /\ AgentOfUser(u) # NoId
          /\ appointments[pk].agent = AgentOfUser(u)

\* C11: resolveAppointment by an actor who is neither the appointment's
\* Client, nor its Agent, nor an admin is answered with an authorization
\* error and leaves the appointments as they are.
C11_OthersGetAuthorizationError ==
    [][\A u \in Users, pk \in DOMAIN appointments :
          ~MayResolve(u, pk) =>
             \A new_status \in StatusInputs :
                ResolveAppointment(u, pk, new_status) =>
                    /\ ResultKind(resp'.result) = "authorization"
                    /\ appointments' = appointments]_vars

(***************************************************************************)
(* Properties of scheduleAppointment.                                      *)
(***************************************************************************)
\* C13: scheduleAppointment of a client account that has no Client profile,
\* or for a property id that names no Property, fails (profile-missing,
\* not-found) and creates no Appointment.
C13_ScheduleFailsWithoutProfileOrProperty ==
    [][\A u \in Users, ppk \in PropertyPks, duration \in DurationInputs :
          ( /\ UserType(u) = "client"
            /\ (ppk \notin DOMAIN properties
                  \/ ~(\E c \in DOMAIN clients : clients[c].user = u))
            /\ ScheduleAppointment(u, ppk, duration) ) =>
              /\ appointments' = appointments
              /\ resp'.op = "scheduleAppointment"
              /\ resp'.wrote = {}
              /\ resp'.result = (IF ppk \notin DOMAIN properties
                                 THEN "no_property" ELSE "no_client_profile")
              /\ ResultKind(resp'.result) = "not_found"]_vars

\* A schedule call of an account without a profile has been turned away
\* after another client's appointment was created.
C13_Witness ==
    /\ resp = Response("scheduleAppointment", "no_client_profile", {})
    /\ Len(appointments) >= 1

C15_TotalSalesMonotonic ==
    [][/\ \A a \in DOMAIN agents :
             /\ a \in DOMAIN agents'
             /\ agents'[a].total_sales >= agents[a].total_sales
             /\ agents'[a].total_sales # agents[a].total_sales =>
                   \E r \in Reqs :
                      deal[r].pc = "saveAgent" /\ deal[r].agent.agent_id = a
                         /\ deal'[r].pc = "idle"
       /\ \A a \in DOMAIN agents' \ DOMAIN agents :
             agents'[a].total_sales = 0]_vars

\* The step is the return of a create call of account u for a profile of the
\* given kind.
CreateProfileReturns(r, kind, u) ==
    \/ /\ prof' = prof
       /\ \E rate \in RateInputs : ProfCreateCheck(r, kind, u, rate)
    \/ /\ prof[r].user = u /\ prof[r].kind = kind
       /\ ProfInsert(r)

\* C16: every account has at most one Agent profile and at most one Client
\* profile, and a profile-create call that returns while the account has
\* that profile already creates nothing, changes no profile and is answered
\* with the redirect to the update view, also when create calls interleave.
C16_SecondCreateRedirects ==
    /\ [](\A kind \in {"agent", "client"}, u \in Users :
            Cardinality(IF kind = "agent"
                        THEN {a \in DOMAIN agents : agents[a].user = u}
                        ELSE {c \in DOMAIN clients : clients[c].user = u}) <= 1)
    /\ [][\A r \in Reqs, kind \in {"agent", "client"}, u \in Users :
            ( /\ (IF kind = "agent"
                  THEN \E a \in DOMAIN agents : agents[a].user = u
                  ELSE \E c \in DOMAIN clients : clients[c].user = u)
              /\ CreateProfileReturns(r, kind, u) ) =>
                /\ resp' = Response("createProfile", "exists", {})
                /\ UNCHANGED <<agents, clients>>]_vars

(***************************************************************************)
(* Properties of a Transaction after its creation.                         *)
(***************************************************************************)
\* C14: an existing Transaction keeps its property, client and agent
\* references and its commission_amount in every step, whatever operation
\* takes it (a change of the agent's commission_rate included); of its
\* fields only payment_status may change.
C14_TransactionLinkageFixed ==
    [][\A pk \in 1..Len(transactions) :
          /\ pk <= Len(transactions')
          /\ [transactions'[pk] EXCEPT !.payment_status = transactions[pk].payment_status]
                = transactions[pk]]_vars
(***************************************************************************)
(* Properties of createListing and updateListing.                          *)
(***************************************************************************)
\* C17: createListing and updateListing write the Location and the Property
\* as one unit: a request that returns with a storage error, the failure of
\* the Property write after the Location write included, has persisted
\* nothing (no new Location row, no changed address).
C17_ListingWritesAtomic ==
    (resp.op \in {"createListing", "updateListing"} /\ resp.result = "error")
        => resp.wrote = {}

\* C18: the steps of an updateListing leave the set of Location rows and
\* every Property's location reference as they are, and the address posted
\* is written to the Location row the Property refers to.
C18_LocationUpdatedInPlace ==
    [][\A r \in Reqs :
          /\ (LstUpdateLocation(r) \/ LstUpdateProperty(r)) =>
                /\ DOMAIN locations' = DOMAIN locations
                /\ DOMAIN properties' = DOMAIN properties
                /\ \A ppk \in DOMAIN properties :
                      properties'[ppk].location = properties[ppk].location
          /\ LstUpdateLocation(r) =>
                locations'[properties[lst[r].ppk].location].street_address
                   = lst[r].form.street_address]_vars

\* An updateListing has returned success with a changed address on the one
\* Location row.
C18_Witness ==
    /\ resp = Response("updateListing", "ok", {"location", "prop"})
    /\ DOMAIN locations = {1}
    /\ locations[1].street_address = "a2"
    /\ properties[1].location = 1

\* The caller u is not the Agent who listed Property ppk.
NotListingAgent(u, ppk) ==
    ppk \in DOMAIN properties /\ properties[ppk].agent # AgentOfUser(u)

\* C19: an updateListing by anyone but the Agent who listed the Property is
\* answered with an authorization error and changes neither the Property nor
\* its Location; on an unknown property id it is answered with not-found.
C19_DeniedWithAuthorizationError ==
    [][\A r \in Reqs, u \in Users, ppk \in PropertyPks, form \in ListingForms :
          LstUpdateStart(r, u, ppk, form) =>
             /\ NotListingAgent(u, ppk) =>
                   /\ ResultKind(resp'.result) = "authorization"
                   /\ UNCHANGED <<properties, locations>>
                   /\ lst'[r].pc = "idle"
             /\ ppk \notin DOMAIN properties =>
                   ResultKind(resp'.result) = "not_found"]_vars

\* C19, as the code has it: such a caller is answered with an authorization
\* error, or with not-found when the caller is an agent account without an
\* Agent profile; the request goes no further and changes neither the
\* Property nor its Location.  An unknown property id is answered with
\* not-found.
C19_DeniedWithoutWrites ==
    [][\A r \in Reqs, u \in Users, ppk \in PropertyPks, form \in ListingForms :
          LstUpdateStart(r, u, ppk, form) =>
             /\ NotListingAgent(u, ppk) =>
                   /\ ResultKind(resp'.result) =
                         (IF UserType(u) = "agent" /\ AgentOfUser(u) = NoId
                          THEN "not_found" ELSE "authorization")
                   /\ UNCHANGED <<properties, locations>>
                   /\ lst'[r].pc = "idle"
             /\ ppk \notin DOMAIN properties =>
                   ResultKind(resp'.result) = "not_found"]_vars

\* An agent account without a profile has been turned away from a listing
\* whose address is still the one it was created with.
C19_Witness ==
    /\ resp = Response("updateListing", "no_agent_profile", {})
    /\ locations[1].street_address = "a1"
(***************************************************************************)
(* Properties of deleteListing.                                            *)
(***************************************************************************)
\* C20: a step that deletes a Property removes the PropertyImages and the
\* Appointments that referred to it and no others, and keeps every Review:
\* a Review that referred to the Property has its property reference null
\* and its other columns (the rating among them) as before.
C20_DeleteCascades ==
    [][\A ppk \in DOMAIN properties \ DOMAIN properties' :
          /\ images' = Cascade(images, ppk)
          /\ RefersTo(images', ppk) = {}
          /\ appointments' = Cascade(appointments, ppk)
          /\ RefersTo(appointments', ppk) = {}
          /\ Len(reviews') = Len(reviews)
          /\ \A i \in 1..Len(reviews) :
                /\ reviews'[i].rating = reviews[i].rating
                /\ reviews'[i].client = reviews[i].client
                /\ reviews'[i].agent = reviews[i].agent
                /\ reviews'[i].property =
                      (IF reviews[i].property = ppk THEN NoId
                       ELSE reviews[i].property)]_vars

\* A Property with an image, an appointment and a review has been deleted,
\* and the review is still there.
C20_Witness ==
    /\ resp = Response("deleteListing", "ok",
                       {"prop", "images", "appointments", "reviews"})
    /\ \E i \in 1..Len(reviews) :
          reviews[i].property = NoId /\ reviews[i].rating = 5
(***************************************************************************)
(* Properties of queryListings.                                            *)
(***************************************************************************)
\* Property p satisfies the price band and the city that query q supplies.
InBandAndCity(p, q) ==
    /\ Len(q.min_price) = 1 => properties[p].price >= q.min_price[1]
    /\ Len(q.max_price) = 1 => properties[p].price <= q.max_price[1]
    /\ q.city # << >> => IContains(locations[properties[p].location].city, q.city)

\* C21: a query with valid filters lists exactly the available Properties
\* that satisfy every filter it supplies: the price lies within the band,
\* the city matches, and the status is the one asked for.
C21_QueryListsMatchingAvailable ==
    (resp.op = "queryListings" /\ SearchValid(resp.query)) =>
        resp.found =
           {p \in DOMAIN properties :
               /\ properties[p].status = "available"
               /\ InBandAndCity(p, resp.query)
               /\ resp.query.status # "" =>
                     properties[p].status = resp.query.status}

\* C22: an omitted filter restricts nothing, and a query that supplies the
\* status s lists the Properties of status s that satisfy its other filters
\* (without a status it lists the available ones).  Queries with a price
\* bound of zero, the case of C21, are left aside.
C22_StatusFilterSelectsStatus ==
    ( /\ resp.op = "queryListings"
      /\ SearchValid(resp.query)
      /\ <<0>> \notin {resp.query.min_price, resp.query.max_price} ) =>
        resp.found =
           {p \in DOMAIN properties :
               /\ InBandAndCity(p, resp.query)
               /\ properties[p].status =
                     (IF resp.query.status = "" THEN "available"
                      ELSE resp.query.status)}
(***************************************************************************)
(* Properties of the status of a Property.                                 *)
(***************************************************************************)
\* C23: the status of a Property changes only from available or pending,
\* and only to sold, rented or off_market; no step moves a Property out of
\* sold or rented.
C23_StatusMachine ==
    [][\A ppk \in DOMAIN properties \cap DOMAIN properties' :
          properties'[ppk].status # properties[ppk].status =>
             /\ properties[ppk].status \in {"available", "pending"}
             /\ properties'[ppk].status \in {"sold", "rented", "off_market"}]_vars

\* C24: a Property with a sold_date is sold or rented, and the sold_date of
\* a Property changes only in the step in which closeDeal saves the
\* Property.
C24_SoldDateOnlyWhenClosed ==
    /\ [](\A ppk \in DOMAIN properties :
            properties[ppk].sold_date # NoDate =>
               properties[ppk].status \in {"sold", "rented"})
    /\ [][\A ppk \in DOMAIN properties \cap DOMAIN properties' :
            properties'[ppk].sold_date # properties[ppk].sold_date =>
               \E r \in Reqs : deal[r].ppk = ppk /\ DealSaveProperty(r)]_vars

\* C28: no Property has more than one Transaction.
C28_OneTransactionPerProperty ==
    \A ppk \in PropertyPks : Cardinality(RefersTo(transactions, ppk)) <= 1
(***************************************************************************)
(* Properties of the lease dates of a Transaction.                         *)
(***************************************************************************)
\* C25: every rental Transaction has both lease dates and every sale
\* Transaction has neither.
C25_LeaseDatesMatchType ==
    \A pk \in 1..Len(transactions) :
       LET dates == {transactions[pk].lease_start_date,
                     transactions[pk].lease_end_date}
       IN  IF transactions[pk].transaction_type = "rental"
           THEN NoDate \notin dates
           ELSE dates = {NoDate}
(***************************************************************************)
(* Properties of total_sales against the Transactions.                     *)
(***************************************************************************)
\* The Transactions whose agent is Agent a.
DealsOf(a) == {pk \in 1..Len(transactions) : transactions[pk].agent = a}

\* C26: no increment of total_sales is lost: when the closeDeal requests
\* have returned, each on a different Property and all with success, every
\* Agent's total_sales has grown by the number of deals the Agent closed.
C26_NoLostIncrement ==
    ( /\ \A r \in Reqs : deal[r].pc = "idle"
      /\ \A i, j \in 1..Len(transactions) :
            i # j => transactions[i].property # transactions[j].property )
    => \A a \in DOMAIN agents : agents[a].total_sales = Cardinality(DealsOf(a))

\* C27: with no request in flight, every Agent's total_sales, which starts
\* at 0 with the profile, is the number of Transactions of that Agent, and
\* every Transaction's agent is the agent of its Property.
C27_TotalSalesCountsTransactions ==
    (\A r \in Reqs : deal[r].pc = "idle") =>
       /\ \A a \in DOMAIN agents : agents[a].total_sales = Cardinality(DealsOf(a))
       /\ \A pk \in 1..Len(transactions) :
             transactions[pk].agent = properties[transactions[pk].property].agent
(***************************************************************************)
(* Properties of closeDeal's save of the Property.                         *)
(***************************************************************************)
\* C29: the step in which closeDeal saves the Property changes its status
\* and its sold_date only: every other column keeps the value stored at
\* that moment, a value committed by an updateListing since closeDeal
\* loaded the Property included.
C29_DealSavesStatusAndDateOnly ==
    [][\A r \in Reqs :
          DealSaveProperty(r) =>
             properties'[deal[r].ppk] =
                [properties[deal[r].ppk] EXCEPT
                    !.status = properties'[deal[r].ppk].status,
                    !.sold_date = properties'[deal[r].ppk].sold_date]]_vars
(***************************************************************************)
(* Properties of deleteListing on a Property with a Transaction.           *)
(***************************************************************************)
\* C30: a delete of a Property that a Transaction refers to is rejected
\* (its agent is told of the restriction, no caller gets a success), and
\* the Property, its PropertyImages, its Appointments, its Reviews and its
\* Transactions stay as they were: nothing is cascaded.
C30_RestrictedDeleteChangesNothing ==
    [][\A u \in Users, ppk \in DOMAIN properties :
          (DeleteProperty(u, ppk) /\ RefersTo(transactions, ppk) # {}) =>
             /\ resp'.result # "ok"
             /\ UpdateAccess(u, ppk) = "pass" => resp'.result = "restricted"
             /\ UNCHANGED <<properties, images, appointments, reviews,
                            transactions>>]_vars

\* A delete was refused for a Property that has a Transaction, an image, an
\* Appointment and a Review, and all of them are still there.
C30_Witness ==
    /\ resp = Response("deleteListing", "restricted", {})
    /\ \E ppk \in DOMAIN properties :
          /\ RefersTo(transactions, ppk) # {}
          /\ RefersTo(images, ppk) # {}
          /\ RefersTo(appointments, ppk) # {}
          /\ RefersTo(reviews, ppk) # {}
====
